---- MODULE Spec2Model ----
(***************************************************************************)
(* Model of scripts/hl_bridge.py: one invocation of the command bridge.    *)
(* The state is the process state of one run (sys.argv, the two module     *)
(* globals, the environment, the position in main and in the running       *)
(* command, the command's locals) together with what the run has done to   *)
(* the outside world: the lines printed on standard output, the calls made *)
(* to the SDK collaborators, the orders and the cancels submitted.         *)
(* Decimal numbers are fixed-point integers in millionths.                 *)
(***************************************************************************)
EXTENDS Integers, Sequences, FiniteSets, TLC

VARIABLES
    given_argv,          \* sys.argv as the process received it (never assigned)
    sys_argv,            \* sys.argv; element 1 is the script name (Python index 0)
    AGENT_PRIVATE_KEY,   \* module global, None until --agent-key= is seen
    MASTER_ADDRESS,      \* module global, None until --master= is seen
    env,                 \* os.environ: HL_PRIVATE_KEY, HL_ACCOUNT_ADDRESS
    pc,                  \* position of the run
    locals,              \* the running command's arguments and loop state
    out,                 \* the lines printed on standard output
    calls,               \* names of the collaborator calls made, in order
    orders,              \* exchange.order(...) calls made, in order
    cancels,             \* exchange.cancel(...) calls made, in order
    accounts,            \* <<account_address given to Exchange>> and addresses read
    is_trigger_above,    \* cmd_trigger's local, <<>> until assigned
    quotes,              \* the current_price values read from all_mids, in order
    reply                \* <<what the last exchange.order call answered>>

vars == <<given_argv, sys_argv, AGENT_PRIVATE_KEY, MASTER_ADDRESS, env, pc, locals, out,
          calls, orders, cancels, accounts, is_trigger_above, quotes, reply>>

\* Python's None.
None == "<None>"

\* Truth value of a string-or-None (Python truthiness).
Truthy(v) == v # None /\ v # ""

----------------------------------------------------------------------------
\* Bounds of the model.

\* Longest assetPositions list the account snapshot holds.
MaxPositions == 2

\* Longest list of open orders the gateway returns.
MaxOpenOrders == 2

----------------------------------------------------------------------------
\* Fixed-point arithmetic.

Pow10[n \in 0..6] == IF n = 0 THEN 1 ELSE 10 * Pow10[n - 1]

\* One unit in millionths.
Unit == Pow10[6]

Abs(x) == IF x < 0 THEN -x ELSE x

\* round-half-even of the non-negative x to a multiple of m
RoundHalfEvenNat(x, m) ==
    LET q == x \div m
        r == x % m
    IN  IF 2 * r < m THEN q * m
        ELSE IF 2 * r > m THEN (q + 1) * m
        ELSE IF q % 2 = 0 THEN q * m ELSE (q + 1) * m

\* Python round(x, ndigits) on a value held in millionths.
Round(x, ndigits) ==
    LET m == Pow10[6 - ndigits]
    IN  IF x >= 0 THEN RoundHalfEvenNat(x, m) ELSE -RoundHalfEvenNat(-x, m)

\* Python round(x) with no ndigits: the nearest whole number, held in millionths.
RoundWhole(x) == Round(x, 0)

\* x * (k / 1000) for a value x in millionths that is a whole number of
\* thousandths (every quote of the model is): 1.001 is k = 1001.
TimesThousandths(x, k) == (x \div 1000) * k

----------------------------------------------------------------------------
\* Strings: the tokens of the model and Python's operations on them.

\* str.lower() on the tokens of the model.
Lower(s) ==
    CASE s = "SELL" -> "sell"
      [] s = "TP" -> "tp"
      [] s = "BALANCE" -> "balance"
      [] s = "DOGE" -> "doge"
      [] s = "BTC" -> "btc"
      [] s = "ETH" -> "eth"
      [] OTHER -> s

\* str.upper() on the tokens of the model.
Upper(s) ==
    CASE s = "btc" -> "BTC"
      [] s = "eth" -> "ETH"
      [] s = "doge" -> "DOGE"
      [] OTHER -> s

\* arg.startswith("--agent-key=") and arg.split("=", 1)[1]
AgentKeyFlags == [f \in {"--agent-key=AK", "--agent-key="} |->
                    IF f = "--agent-key=AK" THEN "AK" ELSE ""]

\* arg.startswith("--master=") and arg.split("=", 1)[1]
MasterFlags == [f \in {"--master=MA", "--master="} |->
                    IF f = "--master=MA" THEN "MA" ELSE ""]

\* float(s) in millionths, for the strings float() accepts (the integer 0 is
\* the default of all_mids.get(coin, 0) and of p.get("szi", "0")).
FloatValue ==
    [s \in {"0", "0.0", "-0.5", "2.0", "2.5", "0.123456", "5.123456",
            "57.12345", "1234.56", "100", "1600.5", "77", "5"} |->
        CASE s = "0" -> 0
          [] s = "0.0" -> 0
          [] s = "-0.5" -> -500000
          [] s = "2.0" -> 2000000
          [] s = "2.5" -> 2500000
          [] s = "0.123456" -> 123456
          [] s = "5.123456" -> 5123456
          [] s = "57.12345" -> 57123450
          [] s = "1234.56" -> 1234560000
          [] s = "100" -> 100000000
          [] s = "1600.5" -> 1600500000
          [] s = "77" -> 77000000
          [] s = "5" -> 5000000]

\* float(s) raises ValueError on any other string.
FloatRaises(s) == s \notin DOMAIN FloatValue

\* int(s) for the strings int() accepts; it raises ValueError on the others
\* ("2.5" and "abc" alike).
IntValue == [s \in {"0", "77", "5", "100"} |->
                CASE s = "0" -> 0 [] s = "77" -> 77 [] s = "5" -> 5 [] s = "100" -> 100]

IntRaises(s) == s \notin DOMAIN IntValue

----------------------------------------------------------------------------
\* Precision: sizes and prices.

\* SZ_DECIMALS, the size decimals per asset.
SZ_DECIMALS ==
    [c \in {"BTC", "ETH", "SOL", "XRP", "BNB", "DOGE", "ADA", "AVAX", "DOT",
            "LINK", "LTC", "BCH", "MATIC", "ARB", "OP", "SUI", "APT", "ATOM",
            "UNI", "NEAR", "FIL", "AAVE", "INJ", "TIA", "SEI", "FTM", "MKR",
            "TON", "TRX", "ETC", "HYPE", "MEGA", "PEPE", "WIF", "BONK", "TAO"} |->
        CASE c = "BTC" -> 4
          [] c \in {"ETH", "MKR"} -> 3
          [] c \in {"SOL", "BNB", "AVAX", "LTC", "BCH", "AAVE", "TAO"} -> 2
          [] c \in {"DOT", "LINK", "APT", "ATOM", "UNI", "FIL", "INJ", "TIA",
                    "TON", "ETC", "HYPE"} -> 1
          [] OTHER -> 0]

\* SZ_DECIMALS.get(coin, 2)
SzDecimals(coin) == IF coin \in DOMAIN SZ_DECIMALS THEN SZ_DECIMALS[coin] ELSE 2

\* size = round(size, sz_decimals); int(size) when sz_decimals == 0 keeps the
\* value (a rounded whole number), so the fixed-point value is the same.
RoundSize(size, coin) == Round(size, SzDecimals(coin))

\* The price precision by magnitude: 5 decimals below 1, 4 below 10, 3 below
\* 100, 2 below 1000, else 1.
RoundPrice(price_float) ==
    IF price_float < 1 * Unit THEN Round(price_float, 5)
    ELSE IF price_float < 10 * Unit THEN Round(price_float, 4)
    ELSE IF price_float < 100 * Unit THEN Round(price_float, 3)
    ELSE IF price_float < 1000 * Unit THEN Round(price_float, 2)
    ELSE Round(price_float, 1)

\* The market price: round(current_price * 1.001) when buying,
\* round(current_price * 0.999) when selling.
MarketPrice(is_buy, current_price) ==
    IF is_buy THEN RoundWhole(TimesThousandths(current_price, 1001))
    ELSE RoundWhole(TimesThousandths(current_price, 999))

\* The limit_open price: round(current_price * 0.95) when buying,
\* round(current_price * 1.05) when selling.
LimitOpenPrice(is_buy, current_price) ==
    IF is_buy THEN RoundWhole(TimesThousandths(current_price, 950))
    ELSE RoundWhole(TimesThousandths(current_price, 1050))

\* is_buy = side.lower() == "buy"
IsBuy(side) == Lower(side) = "buy"

----------------------------------------------------------------------------
\* Credentials.

\* get_exchange() as it would be without the check of the environment key.
GetExchange_NoKeyCheck ==
    IF Truthy(AGENT_PRIVATE_KEY) /\ Truthy(MASTER_ADDRESS)
    THEN {[kind |-> "ok", calls |-> <<"from_key", "Exchange">>,
           key |-> AGENT_PRIVATE_KEY, account_address |-> MASTER_ADDRESS]}
    ELSE {[kind |-> "ok", calls |-> <<"getenv", "getenv", "from_key", "Exchange">>,
           key |-> env.HL_PRIVATE_KEY, account_address |-> env.HL_ACCOUNT_ADDRESS]}

\* get_exchange(): the outcomes of one call and the collaborator calls it
\* makes.  Account.from_key and the Exchange constructor may raise.
GetExchange ==
    IF Truthy(AGENT_PRIVATE_KEY) /\ Truthy(MASTER_ADDRESS)
    THEN {[kind |-> "raise", calls |-> <<"from_key">>],
          [kind |-> "raise", calls |-> <<"from_key", "Exchange">>],
          [kind |-> "ok", calls |-> <<"from_key", "Exchange">>,
           key |-> AGENT_PRIVATE_KEY, account_address |-> MASTER_ADDRESS]}
    ELSE IF ~Truthy(env.HL_PRIVATE_KEY)
    THEN {[kind |-> "error", calls |-> <<"getenv", "getenv">>,
           error |-> "HL_PRIVATE_KEY not set"]}
    ELSE {[kind |-> "raise", calls |-> <<"getenv", "getenv", "from_key">>],
          [kind |-> "raise", calls |-> <<"getenv", "getenv", "from_key", "Exchange">>],
          [kind |-> "ok", calls |-> <<"getenv", "getenv", "from_key", "Exchange">>,
           key |-> env.HL_PRIVATE_KEY, account_address |-> env.HL_ACCOUNT_ADDRESS]}

\* get_account_address()
GetAccountAddress ==
    IF Truthy(MASTER_ADDRESS) THEN MASTER_ADDRESS ELSE env.HL_ACCOUNT_ADDRESS

\* get_info(): the Info constructor returns or raises.
GetInfo == {[kind |-> "ok", calls |-> <<"Info">>], [kind |-> "raise", calls |-> <<"Info">>]}

\* The calls that reach the gateway (the Exchange and Info objects and their
\* methods, all_mids being the quote source), and those of the credential
\* collaborator.
GatewayCalls == {"Exchange", "Info", "user_state", "open_orders", "all_mids",
                 "l2_snapshot", "order", "cancel"}
CredentialCalls == {"getenv", "from_key"}

----------------------------------------------------------------------------
\* What the collaborators may answer.

\* One entry of state["assetPositions"]: position.coin and position.szi.
PositionEntries ==
    {[coin |-> "BTC", szi |-> "-0.5"],
     [coin |-> "ETH", szi |-> "2.0"],
     [coin |-> "DOGE", szi |-> "0.0"]}

RECURSIVE SeqsUpTo(_, _)
\* The sequences over S of length at most n.
SeqsUpTo(S, n) ==
    IF n = 0 THEN {<<>>}
    ELSE LET shorter == SeqsUpTo(S, n - 1)
         IN  shorter \cup {Append(q, x) : q \in {r \in shorter : Len(r) = n - 1}, x \in S}

\* info.user_state(address): the account snapshots the gateway may return.
UserStates == {[assetPositions |-> ps] : ps \in SeqsUpTo(PositionEntries, MaxPositions)}

\* all_mids.get(coin, 0): the quote of one coin, 0 when the coin is absent.
MidQuotes == {"0", "100", "1600.5"}

\* The status entries of an order result: maps that hold some of error,
\* filled, resting.
FilledBody == [oid |-> 7, avgPx |-> "100.5", totalSz |-> "0.5"]
RestingBody == [oid |-> 8]
StatusEntries ==
    {[error |-> "Insufficient margin"],
     [filled |-> FilledBody],
     [resting |-> RestingBody],
     [waiting |-> "waitingForTrigger"],
     [error |-> "Order rejected", filled |-> FilledBody],
     [filled |-> FilledBody, resting |-> RestingBody],
     [error |-> "", resting |-> RestingBody]}

\* exchange.order(...) raised instead of returning.
Raised == [raised |-> "Exception"]

\* exchange.order(...): the results the gateway may return.
OrderResults ==
    {[status |-> "err"], [status |-> "ok"], [status |-> "ok", statuses |-> <<>>]}
    \cup {[status |-> "ok", statuses |-> <<e>>] : e \in StatusEntries}
    \cup {[status |-> "ok", statuses |-> <<[resting |-> RestingBody], [error |-> "second"]>>],
          [status |-> "ok", statuses |-> <<[error |-> "first"], [filled |-> FilledBody]>>]}

\* exchange.cancel(...): the results the gateway may return.
CancelResults == {[status |-> "ok"], [status |-> "err"]}

\* One open order of info.open_orders(address).
OpenOrderEntries ==
    {[coin |-> "BTC", oid |-> 11], [coin |-> "ETH", oid |-> 12], [coin |-> "BTC", oid |-> 0]}

OpenOrderLists == SeqsUpTo(OpenOrderEntries, MaxOpenOrders)

----------------------------------------------------------------------------
\* The invocations of the model.

Commands == {"balance", "positions", "orderbook", "order", "cancel", "trigger",
             "close_all", "open_orders", "cancel_all"}

\* The prefixes of the sequences of S.
Prefixes(S) == UNION {{SubSeq(q, 1, n) : n \in 0..Len(q)} : q \in S}

OrderLines ==
    {<<"order", c, sd, z>> \o t :
        c \in {"btc", "DOGE"}, sd \in {"buy", "SELL", "hold"}, z \in {"0.123456", "abc"},
        t \in {<<>>, <<"market">>, <<"limit_open">>, <<"1234.56">>, <<"abc">>,
               <<"limit">>, <<"limit", "57.12345">>, <<"limit", "market">>}}

TriggerLines ==
    {<<"trigger", c, sd, z, k, px>> :
        c \in {"btc", "DOGE"}, sd \in {"buy", "SELL", "hold"}, z \in {"2.5", "abc"},
        k \in {"sl", "TP", "xx"}, px \in {"5.123456", "abc"}}

OtherLines ==
    {<<"cancel", "btc", "77">>, <<"cancel", "btc", "abc">>,
     <<"orderbook", "btc", "5">>, <<"orderbook", "btc", "abc">>,
     <<"BALANCE">>, <<"positions">>, <<"close_all">>, <<"open_orders">>,
     <<"cancel_all">>, <<"cancel_all", "btc">>, <<"bogus">>}

\* The command lines without the credential flags (sys.argv[1:]).
CommandLines == Prefixes(OrderLines \cup TriggerLines \cup OtherLines)

\* Where the credential flags stand: before the command, right after it, at
\* the end of the line.
FlagLayouts ==
    {<< <<>>, <<>>, <<>> >>,
     << <<"--agent-key=AK", "--master=MA">>, <<>>, <<>> >>,
     << <<>>, <<"--master=MA">>, <<"--agent-key=AK">> >>,
     << <<"--agent-key=AK">>, <<>>, <<>> >>,
     << <<>>, <<>>, <<"--master=MA">> >>,
     << <<>>, <<"--agent-key=">>, <<"--master=MA">> >>}

\* sys.argv of one invocation: the script name, the command line and the flags.
Argv(line, layout) ==
    <<"hl_bridge.py">> \o layout[1]
        \o (IF line = <<>> THEN <<>> ELSE <<Head(line)>>) \o layout[2]
        \o (IF line = <<>> THEN <<>> ELSE Tail(line)) \o layout[3]

\* The environment: HL_PRIVATE_KEY and HL_ACCOUNT_ADDRESS, each set or not.
Environments ==
    {[HL_PRIVATE_KEY |-> None, HL_ACCOUNT_ADDRESS |-> None],
     [HL_PRIVATE_KEY |-> "EK", HL_ACCOUNT_ADDRESS |-> None],
     [HL_PRIVATE_KEY |-> "EK", HL_ACCOUNT_ADDRESS |-> "EA"]}

Init ==
    /\ given_argv \in {Argv(line, layout) : line \in CommandLines, layout \in FlagLayouts}
    /\ sys_argv = given_argv
    /\ AGENT_PRIVATE_KEY = None
    /\ MASTER_ADDRESS = None
    /\ env \in Environments
    /\ pc = "start"
    /\ locals = <<>>
    /\ out = <<>>
    /\ calls = <<>>
    /\ orders = <<>>
    /\ cancels = <<>>
    /\ accounts = [exchange |-> <<>>, read |-> <<>>]
    /\ is_trigger_above = <<>>
    /\ quotes = <<>>
    /\ reply = <<>>

----------------------------------------------------------------------------
\* Steps shared by the actions.

\* The run moves to position p with locals l, printing the lines ps and
\* making the collaborator calls cs.
Step(p, l, ps, cs) ==
    /\ pc' = p
    /\ locals' = l
    /\ out' = out \o ps
    /\ calls' = calls \o cs

\* An exception leaves main uncaught after the calls cs: nothing is printed.
Raise(cs) == Step("crashed", locals, <<>>, cs)

\* print(json.dumps(obj)) and return from main.
Return(obj, cs) == Step("done", locals, <<obj>>, cs)

\* The last element of the non-empty set of naturals S.
Max(S) == CHOOSE x \in S : \A y \in S : y <= x

\* parse_agent_args(): the flags set the two globals (the last occurrence
\* wins) and are removed from sys.argv.
parse_agent_args ==
    /\ pc = "start"
    /\ LET keys == {i \in 1..Len(sys_argv) : sys_argv[i] \in DOMAIN AgentKeyFlags}
           masters == {i \in 1..Len(sys_argv) : sys_argv[i] \in DOMAIN MasterFlags}
           IsPlain(a) == a \notin DOMAIN AgentKeyFlags /\ a \notin DOMAIN MasterFlags
       IN  /\ AGENT_PRIVATE_KEY' =
                IF keys = {} THEN AGENT_PRIVATE_KEY ELSE AgentKeyFlags[sys_argv[Max(keys)]]
           /\ MASTER_ADDRESS' =
                IF masters = {} THEN MASTER_ADDRESS ELSE MasterFlags[sys_argv[Max(masters)]]
           /\ sys_argv' = SelectSeq(sys_argv, IsPlain)
    /\ pc' = "main"
    /\ UNCHANGED <<given_argv, env, locals, out, calls, orders, cancels, accounts,
                   is_trigger_above, quotes, reply>>

\* cmd = sys.argv[1].lower()
Cmd == Lower(sys_argv[2])

\* main(): no command on the line.
main_no_command ==
    /\ pc = "main"
    /\ Len(sys_argv) < 2
    /\ Return([success |-> FALSE, error |-> "No command provided"], <<>>)
    /\ UNCHANGED <<given_argv, sys_argv, AGENT_PRIVATE_KEY, MASTER_ADDRESS, env,
                   orders, cancels, accounts, is_trigger_above, quotes, reply>>

\* main(): a command that is none of the nine.
main_unknown ==
    /\ pc = "main"
    /\ Len(sys_argv) >= 2
    /\ Cmd \notin Commands
    /\ Return([success |-> FALSE, error |-> "Unknown command"], <<>>)
    /\ UNCHANGED <<given_argv, sys_argv, AGENT_PRIVATE_KEY, MASTER_ADDRESS, env,
                   orders, cancels, accounts, is_trigger_above, quotes, reply>>

\* The collaborator calls of get_account_address(): os.getenv when no
\* --master was given.
AccountAddressCalls == IF Truthy(MASTER_ADDRESS) THEN <<>> ELSE <<"getenv">>

\* info.user_state(a) or info.open_orders(a) is called on address a.
Reads(a) == accounts' = [accounts EXCEPT !.read = Append(@, a)]

\* Exchange(wallet, url, account_address=a) is constructed.
Signs(ex) == accounts' = [accounts EXCEPT !.exchange = Append(@, ex.account_address)]

\* The outcomes of get_exchange() that end the command: the error is
\* printed, an exception leaves main.
NoExchange(ex) ==
    \/ ex.kind = "error" /\ Return([success |-> FALSE, error |-> ex.error], ex.calls)
    \/ ex.kind = "raise" /\ Raise(ex.calls)

\* cmd_balance(): no call is guarded.
cmd_balance ==
    /\ pc = "main"
    /\ Len(sys_argv) >= 2
    /\ Cmd = "balance"
    /\ LET cs == <<"Info">> \o AccountAddressCalls \o <<"user_state">>
       IN  \/ Raise(<<"Info">>) /\ UNCHANGED accounts
           \/ Raise(cs) /\ Reads(GetAccountAddress)
           \/ \E state \in UserStates :
                /\ Return([success |-> TRUE, accountValue |-> "0", withdrawable |-> "0"], cs)
                /\ Reads(GetAccountAddress)
    /\ UNCHANGED <<given_argv, sys_argv, AGENT_PRIVATE_KEY, MASTER_ADDRESS, env,
                   orders, cancels, is_trigger_above, quotes, reply>>

\* The positions of the snapshot whose size is not zero, as printed.
NonzeroPositions(state) ==
    LET nz == SelectSeq(state.assetPositions, LAMBDA p : FloatValue[p.szi] # 0)
    IN  [i \in 1..Len(nz) |-> [symbol |-> nz[i].coin, size |-> FloatValue[nz[i].szi]]]

\* cmd_positions(): no call is guarded.
cmd_positions ==
    /\ pc = "main"
    /\ Len(sys_argv) >= 2
    /\ Cmd = "positions"
    /\ LET cs == <<"Info">> \o AccountAddressCalls \o <<"user_state">>
       IN  \/ Raise(<<"Info">>) /\ UNCHANGED accounts
           \/ Raise(cs) /\ Reads(GetAccountAddress)
           \/ \E state \in UserStates :
                /\ Return([success |-> TRUE, positions |-> NonzeroPositions(state)], cs)
                /\ Reads(GetAccountAddress)
    /\ UNCHANGED <<given_argv, sys_argv, AGENT_PRIVATE_KEY, MASTER_ADDRESS, env,
                   orders, cancels, is_trigger_above, quotes, reply>>

\* main(): orderbook with no coin.
main_orderbook_usage ==
    /\ pc = "main"
    /\ Len(sys_argv) >= 2
    /\ Cmd = "orderbook"
    /\ Len(sys_argv) < 3
    /\ Return([success |-> FALSE, error |-> "Usage: orderbook <coin> [depth]"], <<>>)
    /\ UNCHANGED <<given_argv, sys_argv, AGENT_PRIVATE_KEY, MASTER_ADDRESS, env,
                   orders, cancels, accounts, is_trigger_above, quotes, reply>>

\* main() on orderbook and cmd_orderbook(coin, depth): int(depth) and
\* get_info() are not guarded, info.l2_snapshot and the book arithmetic are.
cmd_orderbook ==
    /\ pc = "main"
    /\ Len(sys_argv) >= 3
    /\ Cmd = "orderbook"
    /\ LET coin == Upper(sys_argv[3])
       IN  \/ Len(sys_argv) > 3 /\ IntRaises(sys_argv[4]) /\ Raise(<<>>)
           \/ /\ Len(sys_argv) > 3 => ~IntRaises(sys_argv[4])
              /\ \/ Raise(<<"Info">>)
                 \/ Return([success |-> FALSE, error |-> "l2_snapshot raised"],
                           <<"Info", "l2_snapshot">>)
                 \/ Return([success |-> TRUE, coin |-> coin], <<"Info", "l2_snapshot">>)
    /\ UNCHANGED <<given_argv, sys_argv, AGENT_PRIVATE_KEY, MASTER_ADDRESS, env,
                   orders, cancels, accounts, is_trigger_above, quotes, reply>>

\* cmd_open_orders(): get_info() is not guarded, info.open_orders is.
cmd_open_orders ==
    /\ pc = "main"
    /\ Len(sys_argv) >= 2
    /\ Cmd = "open_orders"
    /\ LET cs == <<"Info">> \o AccountAddressCalls \o <<"open_orders">>
       IN  \/ Raise(<<"Info">>) /\ UNCHANGED accounts
           \/ /\ Return([success |-> FALSE, error |-> "open_orders raised"], cs)
              /\ Reads(GetAccountAddress)
           \/ \E open \in OpenOrderLists :
                /\ Return([success |-> TRUE, orders |-> open, count |-> Len(open)], cs)
                /\ Reads(GetAccountAddress)
    /\ UNCHANGED <<given_argv, sys_argv, AGENT_PRIVATE_KEY, MASTER_ADDRESS, env,
                   orders, cancels, is_trigger_above, quotes, reply>>

\* main(): cancel with fewer than two arguments.
main_cancel_usage ==
    /\ pc = "main"
    /\ Len(sys_argv) >= 2
    /\ Cmd = "cancel"
    /\ Len(sys_argv) < 4
    /\ Return([success |-> FALSE, error |-> "Usage: cancel <coin> <oid>"], <<>>)
    /\ UNCHANGED <<given_argv, sys_argv, AGENT_PRIVATE_KEY, MASTER_ADDRESS, env,
                   orders, cancels, accounts, is_trigger_above, quotes, reply>>

\* main() on cancel and cmd_cancel(coin, oid): int(oid) and exchange.cancel
\* are guarded, get_exchange() is not.
cmd_cancel ==
    /\ pc = "main"
    /\ Len(sys_argv) >= 4
    /\ Cmd = "cancel"
    /\ LET coin == Upper(sys_argv[3])
           oid == sys_argv[4]
       IN  \E ex \in GetExchange :
            \/ NoExchange(ex) /\ UNCHANGED <<cancels, accounts>>
            \/ /\ ex.kind = "ok"
               /\ Signs(ex)
               /\ \/ /\ IntRaises(oid)
                     /\ Return([success |-> FALSE, error |-> "invalid literal for int()"],
                               ex.calls)
                     /\ UNCHANGED cancels
                  \/ /\ ~IntRaises(oid)
                     /\ cancels' = Append(cancels, [coin |-> coin, oid |-> IntValue[oid]])
                     /\ \/ Return([success |-> FALSE, error |-> "cancel raised"],
                                  ex.calls \o <<"cancel">>)
                        \/ \E result \in CancelResults :
                             Return(IF result.status = "ok" THEN [success |-> TRUE]
                                    ELSE [success |-> FALSE, error |-> "cancel rejected"],
                                    ex.calls \o <<"cancel">>)
    /\ UNCHANGED <<given_argv, sys_argv, AGENT_PRIVATE_KEY, MASTER_ADDRESS, env,
                   orders, is_trigger_above, quotes, reply>>

----------------------------------------------------------------------------
\* order

\* main() as it would be with the argument count checked after get_exchange().
main_order_usage_after_exchange ==
    /\ pc = "main"
    /\ Len(sys_argv) >= 2
    /\ Cmd = "order"
    /\ Len(sys_argv) < 5
    /\ \E ex \in GetExchange :
         Return([success |-> FALSE,
                 error |-> "Usage: order <coin> <buy|sell> <size> [limit] [price]"], ex.calls)
    /\ UNCHANGED <<given_argv, sys_argv, AGENT_PRIVATE_KEY, MASTER_ADDRESS, env,
                   orders, cancels, accounts, is_trigger_above, quotes, reply>>

\* main(): order with fewer than three arguments.
main_order_usage ==
    /\ pc = "main"
    /\ Len(sys_argv) >= 2
    /\ Cmd = "order"
    /\ Len(sys_argv) < 5
    /\ Return([success |-> FALSE,
               error |-> "Usage: order <coin> <buy|sell> <size> [limit] [price]"], <<>>)
    /\ UNCHANGED <<given_argv, sys_argv, AGENT_PRIVATE_KEY, MASTER_ADDRESS, env,
                   orders, cancels, accounts, is_trigger_above, quotes, reply>>

\* main(): the price argument of order, after an optional "limit".
PriceToken ==
    IF Len(sys_argv) > 5
    THEN IF sys_argv[6] = "limit"
         THEN IF Len(sys_argv) > 6 THEN sys_argv[7] ELSE None
         ELSE sys_argv[6]
    ELSE None

\* cmd_order: which of the three price branches the price argument takes.
PriceBranch(price) ==
    IF price = None \/ price = "market" THEN "market"
    ELSE IF price = "limit_open" THEN "limit_open"
    ELSE "explicit"

\* The order type as it would be with every branch immediate-or-cancel.
OrderTypeOf_AlwaysIoc(branch) == [limit |-> [tif |-> "Ioc"]]

\* cmd_order: the order type of each branch.
OrderTypeOf(branch) ==
    IF branch = "market" THEN [limit |-> [tif |-> "Ioc"]] ELSE [limit |-> [tif |-> "Gtc"]]

\* cmd_order: the price of the two branches that read the mid.
PriceFromMid(branch, is_buy, current_price) ==
    IF branch = "market" THEN MarketPrice(is_buy, current_price)
    ELSE LimitOpenPrice(is_buy, current_price)

\* main() on order and cmd_order(coin, side, size, price) up to the try
\* block: nothing here is guarded but the missing key.
cmd_order_prepare ==
    /\ pc = "main"
    /\ Len(sys_argv) >= 5
    /\ Cmd = "order"
    /\ LET coin == Upper(sys_argv[3])
           side == sys_argv[4]
           size == sys_argv[5]
           price == PriceToken
           branch == PriceBranch(price)
           is_buy == IsBuy(side)
           Ready(px, cs) ==
               Step("order_submit",
                    [coin |-> coin, is_buy |-> is_buy,
                     size |-> RoundSize(FloatValue[size], coin),
                     price |-> px, order_type |-> OrderTypeOf(branch)],
                    <<>>, cs)
       IN  \E ex \in GetExchange :
            \/ NoExchange(ex) /\ UNCHANGED <<accounts, quotes>>
            \/ /\ ex.kind = "ok"
               /\ Signs(ex)
               /\ \/ Raise(ex.calls \o <<"Info">>) /\ UNCHANGED quotes
                  \/ FloatRaises(size) /\ Raise(ex.calls \o <<"Info">>) /\ UNCHANGED quotes
                  \/ /\ ~FloatRaises(size)
                     /\ branch # "explicit"
                     /\ \/ Raise(ex.calls \o <<"Info", "all_mids">>) /\ UNCHANGED quotes
                        \/ \E quote \in MidQuotes :
                             /\ Ready(PriceFromMid(branch, is_buy, FloatValue[quote]),
                                      ex.calls \o <<"Info", "all_mids">>)
                             /\ quotes' = Append(quotes, FloatValue[quote])
                  \/ /\ ~FloatRaises(size)
                     /\ branch = "explicit"
                     /\ UNCHANGED quotes
                     /\ \/ FloatRaises(price) /\ Raise(ex.calls \o <<"Info">>)
                        \/ /\ ~FloatRaises(price)
                           /\ Ready(RoundPrice(FloatValue[price]), ex.calls \o <<"Info">>)
    /\ UNCHANGED <<given_argv, sys_argv, AGENT_PRIVATE_KEY, MASTER_ADDRESS, env,
                   orders, cancels, is_trigger_above, reply>>

\* d.get(k) is truthy: the key is there and, for the error text, not empty.
Has(d, k) == k \in DOMAIN d /\ (k = "error" => d[k] # "")

\* result.get("response", {}).get("data", {}).get("statuses", [])
Statuses(result) == IF "statuses" \in DOMAIN result THEN result.statuses ELSE <<>>

\* The printed line as it would be with resting tested before filled.
OrderOutcome_RestingFirst(result) ==
    IF result.status = "ok"
    THEN IF Statuses(result) # <<>>
         THEN LET status == Statuses(result)[1]
              IN  IF Has(status, "error")
                  THEN [success |-> FALSE, error |-> status.error]
                  ELSE IF Has(status, "resting")
                  THEN [success |-> TRUE, filled |-> FALSE, oid |-> status.resting.oid]
                  ELSE IF Has(status, "filled")
                  THEN [success |-> TRUE, filled |-> TRUE, oid |-> status.filled.oid,
                        avgPx |-> status.filled.avgPx, totalSz |-> status.filled.totalSz]
                  ELSE [success |-> TRUE, status |-> status]
         ELSE [success |-> TRUE, result |-> result]
    ELSE [success |-> FALSE, error |-> "str(result)"]

\* cmd_order: the line printed for the result of exchange.order.
OrderOutcome(result) ==
    IF result.status = "ok"
    THEN IF Statuses(result) # <<>>
         THEN LET status == Statuses(result)[1]
              IN  IF Has(status, "error")
                  THEN [success |-> FALSE, error |-> status.error]
                  ELSE IF Has(status, "filled")
                  THEN [success |-> TRUE, filled |-> TRUE, oid |-> status.filled.oid,
                        avgPx |-> status.filled.avgPx, totalSz |-> status.filled.totalSz]
                  ELSE IF Has(status, "resting")
                  THEN [success |-> TRUE, filled |-> FALSE, oid |-> status.resting.oid]
                  ELSE [success |-> TRUE, status |-> status]
         ELSE [success |-> TRUE, result |-> result]
    ELSE [success |-> FALSE, error |-> "str(result)"]

\* The arguments of exchange.order(coin, is_buy, sz, limit_px, order_type,
\* reduce_only); cmd_order and cmd_close_all leave reduce_only at its default.
Order(coin, is_buy, sz, limit_px, order_type, reduce_only) ==
    [coin |-> coin, is_buy |-> is_buy, sz |-> sz, limit_px |-> limit_px,
     order_type |-> order_type, reduce_only |-> reduce_only]

\* cmd_order: the try block, exchange.order and the printed outcome.
cmd_order_submit ==
    /\ pc = "order_submit"
    /\ orders' = Append(orders, Order(locals.coin, locals.is_buy, locals.size,
                                      locals.price, locals.order_type, FALSE))
    /\ \/ /\ Return([success |-> FALSE, error |-> "order raised"], <<"order">>)
          /\ reply' = <<Raised>>
       \/ \E result \in OrderResults :
            /\ Return(OrderOutcome(result), <<"order">>)
            /\ reply' = <<result>>
    /\ UNCHANGED <<given_argv, sys_argv, AGENT_PRIVATE_KEY, MASTER_ADDRESS, env,
                   cancels, accounts, is_trigger_above, quotes>>

----------------------------------------------------------------------------
\* trigger

\* main(): trigger with fewer than five arguments.
main_trigger_usage ==
    /\ pc = "main"
    /\ Len(sys_argv) >= 2
    /\ Cmd = "trigger"
    /\ Len(sys_argv) < 7
    /\ Return([success |-> FALSE,
               error |-> "Usage: trigger <coin> <buy|sell> <size> <sl|tp> <trigger_price>"],
              <<>>)
    /\ UNCHANGED <<given_argv, sys_argv, AGENT_PRIVATE_KEY, MASTER_ADDRESS, env,
                   orders, cancels, accounts, is_trigger_above, quotes, reply>>

\* main() on trigger and cmd_trigger(coin, side, size, trigger_type,
\* trigger_price) up to the try block: the two float() calls are not guarded.
cmd_trigger_prepare ==
    /\ pc = "main"
    /\ Len(sys_argv) >= 7
    /\ Cmd = "trigger"
    /\ LET coin == Upper(sys_argv[3])
           side == sys_argv[4]
           size == sys_argv[5]
           trigger_type == sys_argv[6]
           trigger_price == sys_argv[7]
       IN  \E ex \in GetExchange :
            \/ NoExchange(ex) /\ UNCHANGED accounts
            \/ /\ ex.kind = "ok"
               /\ Signs(ex)
               /\ \/ Raise(ex.calls \o <<"Info">>)
                  \/ /\ FloatRaises(size) \/ FloatRaises(trigger_price)
                     /\ Raise(ex.calls \o <<"Info">>)
                  \/ /\ ~FloatRaises(size)
                     /\ ~FloatRaises(trigger_price)
                     /\ Step("trigger_submit",
                             [coin |-> coin, is_buy |-> IsBuy(side),
                              size |-> RoundSize(FloatValue[size], coin),
                              trigger_type |-> trigger_type,
                              trigger_price |-> RoundPrice(FloatValue[trigger_price])],
                             <<>>, ex.calls \o <<"Info">>)
    /\ UNCHANGED <<given_argv, sys_argv, AGENT_PRIVATE_KEY, MASTER_ADDRESS, env,
                   orders, cancels, is_trigger_above, quotes, reply>>

\* cmd_trigger: tpsl is "sl" for the type sl, "tp" for every other type.
Tpsl(trigger_type) == IF Lower(trigger_type) = "sl" THEN "sl" ELSE "tp"

\* The trigger direction as it would be with the take-profit case not negated.
TriggerAbove_NotNegated(trigger_type, is_buy) == is_buy

\* cmd_trigger: is_trigger_above is is_buy for sl and not is_buy otherwise.
TriggerAbove(trigger_type, is_buy) ==
    IF Lower(trigger_type) = "sl" THEN is_buy ELSE ~is_buy

\* cmd_trigger: the order type of the trigger order.
TriggerOrderType(trigger_price, tpsl) ==
    [trigger |-> [triggerPx |-> trigger_price, isMarket |-> TRUE, tpsl |-> tpsl]]

\* cmd_trigger: the line printed for the result of exchange.order.
TriggerOutcome(result, trigger_type, trigger_price) ==
    IF result.status = "ok"
    THEN IF Statuses(result) # <<>>
         THEN LET status == Statuses(result)[1]
              IN  IF Has(status, "error")
                  THEN [success |-> FALSE, error |-> status.error]
                  ELSE IF Has(status, "resting")
                  THEN [success |-> TRUE, oid |-> status.resting.oid,
                        triggerType |-> trigger_type, triggerPrice |-> trigger_price]
                  ELSE [success |-> TRUE, status |-> status]
         ELSE [success |-> TRUE, result |-> result]
    ELSE [success |-> FALSE, error |-> "str(result)"]

\* The reduce_only argument as it would be were it left at its default.
TriggerReduceOnly_Default == FALSE

\* The reduce_only argument cmd_trigger passes to exchange.order.
TriggerReduceOnly == TRUE

\* cmd_trigger: the try block, the trigger direction, exchange.order and
\* the printed outcome.
cmd_trigger_submit ==
    /\ pc = "trigger_submit"
    /\ is_trigger_above' = <<TriggerAbove(locals.trigger_type, locals.is_buy)>>
    /\ orders' = Append(orders,
                        Order(locals.coin, locals.is_buy, locals.size, locals.trigger_price,
                              TriggerOrderType(locals.trigger_price, Tpsl(locals.trigger_type)),
                              TriggerReduceOnly))
    /\ \/ /\ Return([success |-> FALSE, error |-> "order raised"], <<"order">>)
          /\ reply' = <<Raised>>
       \/ \E result \in OrderResults :
            /\ Return(TriggerOutcome(result, locals.trigger_type, locals.trigger_price),
                      <<"order">>)
            /\ reply' = <<result>>
    /\ UNCHANGED <<given_argv, sys_argv, AGENT_PRIVATE_KEY, MASTER_ADDRESS, env,
                   cancels, accounts, quotes>>

----------------------------------------------------------------------------
\* close_all

\* cmd_close_all() up to the loop: get_exchange, get_info and
\* info.user_state; only the missing key is handled.
cmd_close_all ==
    /\ pc = "main"
    /\ Len(sys_argv) >= 2
    /\ Cmd = "close_all"
    /\ \E ex \in GetExchange :
        \/ NoExchange(ex) /\ UNCHANGED accounts
        \/ /\ ex.kind = "ok"
           /\ LET cs == ex.calls \o <<"Info">> \o AccountAddressCalls \o <<"user_state">>
                  read == [accounts EXCEPT !.exchange = Append(@, ex.account_address),
                                           !.read = Append(@, GetAccountAddress)]
              IN  \/ Raise(ex.calls \o <<"Info">>) /\ Signs(ex)
                  \/ Raise(cs) /\ accounts' = read
                  \/ \E state \in UserStates :
                       /\ Step("close_loop",
                               [positions |-> state.assetPositions, i |-> 1, closed |-> <<>>],
                               <<>>, cs)
                       /\ accounts' = read
    /\ UNCHANGED <<given_argv, sys_argv, AGENT_PRIVATE_KEY, MASTER_ADDRESS, env,
                   orders, cancels, is_trigger_above, quotes, reply>>

\* cmd_close_all: the order that closes a position of signed size `size`.
CloseOrder(coin, size, current_price) ==
    Order(coin, size < 0, Abs(size), MarketPrice(size < 0, current_price),
          [limit |-> [tif |-> "Ioc"]], FALSE)

\* cmd_close_all: one pass of the loop over state["assetPositions"]; the
\* quote is read outside the try block, the order is submitted inside it.
close_all_position ==
    /\ pc = "close_loop"
    /\ locals.i <= Len(locals.positions)
    /\ LET p == locals.positions[locals.i]
           size == FloatValue[p.szi]
           coin == p.coin
           next == [locals EXCEPT !.i = @ + 1]
       IN  \/ /\ size = 0
              /\ Step("close_loop", next, <<>>, <<>>)
              /\ UNCHANGED <<orders, quotes, reply>>
           \/ /\ size # 0
              /\ Raise(<<"all_mids">>)
              /\ UNCHANGED <<orders, quotes, reply>>
           \/ /\ size # 0
              /\ \E quote \in MidQuotes :
                   /\ quotes' = Append(quotes, FloatValue[quote])
                   /\ orders' = Append(orders, CloseOrder(coin, size, FloatValue[quote]))
                   /\ \/ /\ Step("close_loop",
                                 [next EXCEPT !.closed = Append(@,
                                     [coin |-> coin, size |-> Abs(size),
                                      error |-> "order raised"])],
                                 <<>>, <<"all_mids", "order">>)
                         /\ reply' = <<Raised>>
                      \/ \E result \in OrderResults :
                           /\ Step("close_loop",
                                   [next EXCEPT !.closed = Append(@,
                                       [coin |-> coin, size |-> Abs(size),
                                        result |-> result.status])],
                                   <<>>, <<"all_mids", "order">>)
                           /\ reply' = <<result>>
    /\ UNCHANGED <<given_argv, sys_argv, AGENT_PRIVATE_KEY, MASTER_ADDRESS, env,
                   cancels, accounts, is_trigger_above>>

\* cmd_close_all: after the loop the closed list is printed.
close_all_done ==
    /\ pc = "close_loop"
    /\ locals.i > Len(locals.positions)
    /\ Return([success |-> TRUE, closed |-> locals.closed], <<>>)
    /\ UNCHANGED <<given_argv, sys_argv, AGENT_PRIVATE_KEY, MASTER_ADDRESS, env,
                   orders, cancels, accounts, is_trigger_above, quotes, reply>>

----------------------------------------------------------------------------
\* cancel_all

\* cmd_cancel_all_orders(coin) up to the loop: get_exchange and get_info are
\* not guarded, info.open_orders is.
cmd_cancel_all_orders ==
    /\ pc = "main"
    /\ Len(sys_argv) >= 2
    /\ Cmd = "cancel_all"
    /\ LET coin == IF Len(sys_argv) > 2 THEN Upper(sys_argv[3]) ELSE None
       IN  \E ex \in GetExchange :
            \/ NoExchange(ex) /\ UNCHANGED accounts
            \/ /\ ex.kind = "ok"
               /\ LET cs == ex.calls \o <<"Info">> \o AccountAddressCalls \o <<"open_orders">>
                      read == [accounts EXCEPT !.exchange = Append(@, ex.account_address),
                                               !.read = Append(@, GetAccountAddress)]
                  IN  \/ Raise(ex.calls \o <<"Info">>) /\ Signs(ex)
                      \/ /\ Return([success |-> FALSE, error |-> "open_orders raised"], cs)
                         /\ accounts' = read
                      \/ \E open \in OpenOrderLists :
                           /\ Step("cancel_loop",
                                   [coin |-> coin, open_orders |-> open, i |-> 1,
                                    cancelled |-> <<>>, errors |-> <<>>],
                                   <<>>, cs)
                           /\ accounts' = read
    /\ UNCHANGED <<given_argv, sys_argv, AGENT_PRIVATE_KEY, MASTER_ADDRESS, env,
                   orders, cancels, is_trigger_above, quotes, reply>>

\* cmd_cancel_all_orders: the coin filter lets the order through.
PassesFilter(coin, order_coin) == ~(Truthy(coin) /\ Upper(order_coin) # Upper(coin))

\* cmd_cancel_all_orders: one pass of the loop over the open orders; an
\* order with a falsy oid is passed over.
cancel_all_order ==
    /\ pc = "cancel_loop"
    /\ locals.i <= Len(locals.open_orders)
    /\ LET order == locals.open_orders[locals.i]
           next == [locals EXCEPT !.i = @ + 1]
           entry == [coin |-> order.coin, oid |-> order.oid]
       IN  \/ /\ ~PassesFilter(locals.coin, order.coin) \/ order.oid = 0
              /\ Step("cancel_loop", next, <<>>, <<>>)
              /\ UNCHANGED cancels
           \/ /\ PassesFilter(locals.coin, order.coin)
              /\ order.oid # 0
              /\ cancels' = Append(cancels, entry)
              /\ \/ Step("cancel_loop",
                         [next EXCEPT !.errors = Append(@, entry)], <<>>, <<"cancel">>)
                 \/ \E result \in CancelResults :
                      Step("cancel_loop",
                           IF result.status = "ok"
                           THEN [next EXCEPT !.cancelled = Append(@, entry)]
                           ELSE [next EXCEPT !.errors = Append(@, entry)],
                           <<>>, <<"cancel">>)
    /\ UNCHANGED <<given_argv, sys_argv, AGENT_PRIVATE_KEY, MASTER_ADDRESS, env,
                   orders, accounts, is_trigger_above, quotes, reply>>

\* cmd_cancel_all_orders: after the loop the two lists and their counts are
\* printed.
cancel_all_done ==
    /\ pc = "cancel_loop"
    /\ locals.i > Len(locals.open_orders)
    /\ Return([success |-> TRUE, cancelled |-> locals.cancelled,
               cancelledCount |-> Len(locals.cancelled), errors |-> locals.errors,
               errorCount |-> Len(locals.errors)], <<>>)
    /\ UNCHANGED <<given_argv, sys_argv, AGENT_PRIVATE_KEY, MASTER_ADDRESS, env,
                   orders, cancels, accounts, is_trigger_above, quotes, reply>>

----------------------------------------------------------------------------
Next ==
    \/ parse_agent_args
    \/ main_no_command
    \/ main_unknown
    \/ cmd_balance
    \/ cmd_positions
    \/ main_orderbook_usage
    \/ cmd_orderbook
    \/ cmd_open_orders
    \/ main_cancel_usage
    \/ cmd_cancel
    \/ main_order_usage
    \/ cmd_order_prepare
    \/ cmd_order_submit
    \/ main_trigger_usage
    \/ cmd_trigger_prepare
    \/ cmd_trigger_submit
    \/ cmd_close_all
    \/ close_all_position
    \/ close_all_done
    \/ cmd_cancel_all_orders
    \/ cancel_all_order
    \/ cancel_all_done

Spec == Init /\ [][Next]_vars

----------------------------------------------------------------------------
\* The invocation as the caller gave it.

\* The run is over: main returned, or an exception left it.
Finished == pc \in {"done", "crashed"}

IsCredentialFlag(a) == a \in DOMAIN AgentKeyFlags \/ a \in DOMAIN MasterFlags

\* The command line of the caller with the credential flags taken out,
\* wherever they stood; element 1 is the script name.
Positional == SelectSeq(given_argv, LAMBDA a : ~IsCredentialFlag(a))

\* The command the caller named, None when there is none.
GivenCmd == IF Len(Positional) >= 2 THEN Lower(Positional[2]) ELSE None

\* The number of positional arguments after the command.
NArgs == Len(Positional) - 2

\* The values of the flags the caller gave, None for a flag not given.
GivenAgentKey ==
    LET at == {i \in 1..Len(given_argv) : given_argv[i] \in DOMAIN AgentKeyFlags}
    IN  IF at = {} THEN None ELSE AgentKeyFlags[given_argv[Max(at)]]
GivenMaster ==
    LET at == {i \in 1..Len(given_argv) : given_argv[i] \in DOMAIN MasterFlags}
    IN  IF at = {} THEN None ELSE MasterFlags[given_argv[Max(at)]]

\* The positions of the snapshot with a size that is not zero.
Nonzero(positions) == SelectSeq(positions, LAMBDA p : FloatValue[p.szi] # 0)

\* cmd_close_all has read the account snapshot.
SnapshotRead == GivenCmd = "close_all" /\ "positions" \in DOMAIN locals

----------------------------------------------------------------------------
\* C1: every finished run of a recognized command has printed exactly one
\* result and has returned normally; no exception leaves the command.
C1_OneResultAlways ==
    (Finished /\ GivenCmd \in Commands) => (pc = "done" /\ Len(out) = 1)

\* C2: when close_all ends, whichever per-position call raised, it has
\* returned and the printed closed list holds one entry per nonzero
\* position of the snapshot.
C2_EveryPositionAttempted ==
    (Finished /\ SnapshotRead) =>
        /\ pc = "done"
        /\ Len(out) = 1
        /\ "closed" \in DOMAIN out[1]
        /\ Len(out[1].closed) = Len(Nonzero(locals.positions))

\* C3: on order and trigger, a side that is neither buy nor sell submits no
\* order and the printed result is a failure.
C3_BadSideRejected ==
    (GivenCmd \in {"order", "trigger"} /\ NArgs >= 2
        /\ Lower(Positional[4]) \notin {"buy", "sell"}) =>
        /\ orders = <<>>
        /\ pc = "done" => out[1].success = FALSE

\* The positional arguments each command requires.
Required == [c \in {"order", "cancel", "trigger", "orderbook"} |->
                CASE c = "order" -> 3 [] c = "cancel" -> 2 [] c = "trigger" -> 5
                  [] c = "orderbook" -> 1]

UsageText(c) ==
    CASE c = "order" -> "Usage: order <coin> <buy|sell> <size> [limit] [price]"
      [] c = "cancel" -> "Usage: cancel <coin> <oid>"
      [] c = "trigger" -> "Usage: trigger <coin> <buy|sell> <size> <sl|tp> <trigger_price>"
      [] c = "orderbook" -> "Usage: orderbook <coin> [depth]"

\* C4: with fewer positional arguments than the command requires, counted
\* without the credential flags, no collaborator is ever called, nothing is
\* submitted, no exception is raised, and the only line the run prints is
\* the usage failure of that command.
C4_UsageBeforeAnyCall ==
    (GivenCmd \in DOMAIN Required /\ NArgs < Required[GivenCmd]) =>
        /\ calls = <<>>
        /\ orders = <<>>
        /\ cancels = <<>>
        /\ accounts = [exchange |-> <<>>, read |-> <<>>]
        /\ pc \in {"start", "main", "done"}
        /\ pc = "done" => out = <<[success |-> FALSE, error |-> UsageText(GivenCmd)]>>
        /\ pc # "done" => out = <<>>

\* A trigger command one argument short, given with credential flags, has
\* printed its usage failure.
C4_Witness ==
    /\ pc = "done"
    /\ GivenCmd = "trigger"
    /\ NArgs = 4
    /\ Len(given_argv) > Len(Positional)
    /\ out = <<[success |-> FALSE, error |-> UsageText("trigger")]>>

\* No signing key: no pair of flags and no key in the environment.
NoSigningKey ==
    /\ ~(Truthy(GivenAgentKey) /\ Truthy(GivenMaster))
    /\ ~Truthy(env.HL_PRIVATE_KEY)

SigningCommands == {"order", "cancel", "trigger", "close_all", "cancel_all"}

\* C5: a signing command run without a signing key never calls the gateway,
\* submits nothing, raises nothing, and what it prints is one failure with
\* an error text.
C5_NoKeyNoGatewayCall ==
    (GivenCmd \in SigningCommands /\ NoSigningKey) =>
        /\ \A i \in 1..Len(calls) : calls[i] \notin GatewayCalls
        /\ orders = <<>>
        /\ cancels = <<>>
        /\ pc # "crashed"
        /\ Len(out) <= 1
        /\ pc = "done" => /\ Len(out) = 1
                          /\ out[1].success = FALSE
                          /\ "error" \in DOMAIN out[1]

\* close_all given --master alone and no environment key has printed the
\* missing-key failure.
C5_Witness ==
    /\ pc = "done"
    /\ GivenCmd = "close_all"
    /\ NoSigningKey
    /\ GivenMaster = "MA"
    /\ out = <<[success |-> FALSE, error |-> "HL_PRIVATE_KEY not set"]>>

----------------------------------------------------------------------------
\* The canonical shapes of a printed order result.

\* The first status entry of an ok reply, when there is one.
FirstStatus(r) == Statuses(r)[1]

\* The reply is a fault or a rejection of the gateway.
Rejected(r) == "raised" \in DOMAIN r \/ r.status # "ok"

\* The canonical line of a reply, by the priority of the claim: fault or
\* rejection, then error, filled, resting of the first status, then the
\* opaque status, and the opaque result when there is no status at all.
Canonical(r) ==
    IF "raised" \in DOMAIN r THEN [success |-> FALSE, error |-> "order raised"]
    ELSE IF r.status # "ok" THEN [success |-> FALSE, error |-> "str(result)"]
    ELSE IF Statuses(r) = <<>> THEN [success |-> TRUE, result |-> r]
    ELSE IF Has(FirstStatus(r), "error")
         THEN [success |-> FALSE, error |-> FirstStatus(r).error]
    ELSE IF "filled" \in DOMAIN FirstStatus(r)
         THEN [success |-> TRUE, filled |-> TRUE, oid |-> FirstStatus(r).filled.oid,
               avgPx |-> FirstStatus(r).filled.avgPx,
               totalSz |-> FirstStatus(r).filled.totalSz]
    ELSE IF "resting" \in DOMAIN FirstStatus(r)
         THEN [success |-> TRUE, filled |-> FALSE, oid |-> FirstStatus(r).resting.oid]
    ELSE [success |-> TRUE, status |-> FirstStatus(r)]

\* The first status of the reply decides the line: there is one, and it
\* holds no error text.
Decides(r) == ~Rejected(r) /\ Statuses(r) # <<>> /\ ~Has(FirstStatus(r), "error")

\* The line of the trigger command: the canonical one, but a first status
\* with resting prints the oid with the trigger type and price and no
\* filled field, and one with filled and no resting prints the opaque status.
TriggerLine(r, trigger_type, trigger_price) ==
    IF Decides(r) /\ "resting" \in DOMAIN FirstStatus(r)
    THEN [success |-> TRUE, oid |-> FirstStatus(r).resting.oid,
          triggerType |-> trigger_type, triggerPrice |-> trigger_price]
    ELSE IF Decides(r) /\ "filled" \in DOMAIN FirstStatus(r)
    THEN [success |-> TRUE, status |-> FirstStatus(r)]
    ELSE Canonical(r)

\* An order or trigger command has had its answer from exchange.order and
\* has printed.
Answered(c) == GivenCmd = c /\ pc = "done" /\ reply # <<>>

----------------------------------------------------------------------------
----------------------------------------------------------------------------
\* The order that closes position p at the mid `current_price`, by the rule
\* of the claim.
ClosingOrder(p, current_price) ==
    LET size == FloatValue[p.szi]
    IN  [coin |-> p.coin, is_buy |-> size < 0, sz |-> Abs(size),
         limit_px |-> IF size < 0
                      THEN RoundWhole(TimesThousandths(current_price, 1001))
                      ELSE RoundWhole(TimesThousandths(current_price, 999)),
         order_type |-> [limit |-> [tif |-> "Ioc"]], reduce_only |-> FALSE]

\* C8: when close_all ends, the orders submitted are the closing orders of
\* the nonzero positions of the snapshot, one each and in order.
C8_OneOrderPerPosition ==
    (Finished /\ SnapshotRead) =>
        LET nz == Nonzero(locals.positions)
        IN  /\ Len(orders) = Len(nz)
            /\ Len(quotes) = Len(nz)
            /\ \A k \in 1..Len(nz) : orders[k] = ClosingOrder(nz[k], quotes[k])

----------------------------------------------------------------------------
\* The price token of the order command: what follows the size, after an
\* optional literal "limit"; None when nothing is left.
GivenPriceToken ==
    LET rest == SubSeq(Positional, 6, Len(Positional))
        left == IF rest # <<>> /\ rest[1] = "limit" THEN Tail(rest) ELSE rest
    IN  IF left = <<>> THEN None ELSE left[1]

\* C9: the order command submits at most one order, exactly one once it has
\* passed the submission; by the price token the order is immediate-or-cancel
\* at the market price of the one mid read (absent or "market"),
\* good-till-cancel at the limit_open price of the one mid read
\* ("limit_open"), or good-till-cancel at the token parsed and rounded, with
\* no mid read at all (any other token).
C9_PriceBranches ==
    GivenCmd = "order" =>
        /\ Len(orders) <= 1
        /\ (pc = "done" /\ reply # <<>>) => Len(orders) = 1
        /\ orders # <<>> =>
            LET o == orders[1]
                tok == GivenPriceToken
                mids == Cardinality({i \in 1..Len(calls) : calls[i] = "all_mids"})
            IN  IF tok = None \/ tok = "market"
                THEN /\ o.order_type = [limit |-> [tif |-> "Ioc"]]
                     /\ mids = 1 /\ Len(quotes) = 1
                     /\ o.limit_px = MarketPrice(o.is_buy, quotes[1])
                ELSE IF tok = "limit_open"
                THEN /\ o.order_type = [limit |-> [tif |-> "Gtc"]]
                     /\ mids = 1 /\ Len(quotes) = 1
                     /\ o.limit_px = LimitOpenPrice(o.is_buy, quotes[1])
                ELSE /\ o.order_type = [limit |-> [tif |-> "Gtc"]]
                     /\ mids = 0 /\ quotes = <<>>
                     /\ ~FloatRaises(tok)
                     /\ o.limit_px = RoundPrice(FloatValue[tok])

\* An order given as "limit 57.12345" was submitted good-till-cancel at
\* 57.123 with no mid read.
C9_Witness ==
    /\ GivenCmd = "order"
    /\ NArgs = 5
    /\ Positional[6] = "limit"
    /\ GivenPriceToken = "57.12345"
    /\ Len(orders) = 1
    /\ orders[1].limit_px = 57123000
    /\ orders[1].order_type = [limit |-> [tif |-> "Gtc"]]
    /\ quotes = <<>>

----------------------------------------------------------------------------
\* C10: every order of the trigger command is reduce-only, executes as
\* market, carries the kind the caller gave (sl or tp, in any case) and has
\* its trigger price and its limit price both equal to the caller's price
\* rounded by magnitude; every order of the order command is not reduce-only.
C10_TriggerOrderFields ==
    \A i \in 1..Len(orders) :
        LET o == orders[i]
        IN  /\ GivenCmd = "trigger" =>
                /\ o.reduce_only = TRUE
                /\ DOMAIN o.order_type = {"trigger"}
                /\ o.order_type.trigger.isMarket = TRUE
                /\ Lower(Positional[6]) \in {"sl", "tp"} =>
                       o.order_type.trigger.tpsl = Lower(Positional[6])
                /\ o.order_type.trigger.triggerPx = o.limit_px
                /\ o.limit_px = RoundPrice(FloatValue[Positional[7]])
            /\ GivenCmd = "order" => o.reduce_only = FALSE

\* A take-profit trigger at 5.123456 was submitted reduce-only at 5.1235.
C10_Witness ==
    /\ GivenCmd = "trigger"
    /\ NArgs = 5
    /\ Positional[6] = "TP"
    /\ Len(orders) = 1
    /\ orders[1].reduce_only = TRUE
    /\ orders[1].limit_px = 5123500
    /\ orders[1].order_type.trigger.tpsl = "tp"

----------------------------------------------------------------------------
\* The run submits market orders: the order command with no price token or
\* with "market", and close_all.
MarketRun ==
    \/ GivenCmd = "order" /\ GivenPriceToken \in {None, "market"}
    \/ GivenCmd = "close_all"

\* C11: every market order submitted on a positive mid is priced at the mid
\* times 1.001 (buy) or 0.999 (sell) rounded to whole units, and that price
\* is strictly above the mid when buying and strictly below it when selling.
C11_MarketPriceCrossesMid ==
    MarketRun =>
        \A k \in 1..Len(orders) :
            (k <= Len(quotes) /\ quotes[k] > 0) =>
                LET o == orders[k]
                    mid == quotes[k]
                IN  /\ o.limit_px = IF o.is_buy
                                    THEN RoundWhole(TimesThousandths(mid, 1001))
                                    ELSE RoundWhole(TimesThousandths(mid, 999))
                    /\ o.is_buy => o.limit_px > mid
                    /\ ~o.is_buy => o.limit_px < mid

----------------------------------------------------------------------------
\* C12: in close_all and cancel_all the account that is read is the account
\* the exchange was constructed for.
C12_ReadAccountIsSigningAccount ==
    (GivenCmd \in {"close_all", "cancel_all"} /\ accounts.read # <<>>) =>
        accounts.exchange = accounts.read

----------------------------------------------------------------------------
\* cancel_all has fetched the open orders.
OpenOrdersRead == GivenCmd = "cancel_all" /\ "open_orders" \in DOMAIN locals

\* The symbol the caller gave to cancel_all, None when there is none.
GivenSymbol == IF NArgs >= 1 THEN Positional[3] ELSE None

\* The open orders that pass the caller's symbol filter, compared without
\* regard to case, as the coin and oid of each.
InFilter(open) ==
    LET Passes(order) == GivenSymbol = None \/ Upper(order.coin) = Upper(GivenSymbol)
        passing == SelectSeq(open, Passes)
    IN  [k \in 1..Len(passing) |-> [coin |-> passing[k].coin, oid |-> passing[k].oid]]

\* How many times e stands in the sequence q.
Count(q, e) == Cardinality({k \in 1..Len(q) : q[k] = e})

\* C13: when cancel_all ends after fetching the open orders, the cancel
\* attempts are exactly the orders that pass the filter, one each and in
\* order, each of them stands in exactly one of cancelled and errors, and the
\* two printed counts add up to their number.
C13_EveryFilteredOrderCancelled ==
    (OpenOrdersRead /\ Finished) =>
        LET passing == InFilter(locals.open_orders)
        IN  /\ pc = "done"
            /\ cancels = passing
            /\ \A k \in 1..Len(passing) :
                 Count(locals.cancelled, passing[k]) + Count(locals.errors, passing[k])
                    = Count(passing, passing[k])
            /\ Len(out) = 1
            /\ out[1].success = TRUE
            /\ out[1].cancelledCount + out[1].errorCount = Len(passing)

====
